---- MODULE Spec2Model ----
(***************************************************************************)
(* Gladsheim: OSM extract -> road-graph tiles.                             *)
(* Model of src/src/osm_parser.rs (read_osm_pbf, parse_way, parse_node)   *)
(* and src/src/utils.rs (tile maths, quadkeys, ParallelQuadkeyMap).       *)
(*                                                                         *)
(* Coordinates are decimal degrees with eight decimals.  A coordinate is  *)
(* the pair <<hi, lo>> standing for (hi * 10^4 + lo) * 10^-8 degrees with *)
(* lo in 0..9999, so that every value fits a 32-bit integer.              *)
(* Strings built character by character are sequences of one-character    *)
(* strings.                                                                *)
(***************************************************************************)
EXTENDS Integers, Sequences, FiniteSets, TLC

VARIABLES
    file,               \* the extract: the sequence of elements the source yields
    pc,                 \* where read_osm_pbf stands
    parsed_ways,        \* result of the first par_map_reduce
    active_nodes,       \* node ids referenced by kept ways
    node_table,         \* NodeId -> Node, built from the second par_map_reduce
    intersection_nodes, \* node ids seen at least twice
    new_edges,          \* per way: the edges its flat_map closure returned
    split_done,         \* ways whose flat_map closure has run
    claimed,            \* <<way, k>>: edges handed to the for_each closure
    worker,             \* per pool thread: position in the for_each closure
    buckets,            \* ParallelQuadkeyMap.buckets: bucket -> (Quadkey -> Tile)
    lock,               \* per bucket: the thread holding its mutex, 0 if free
    calls,              \* <<way, k>> -> quadkey passed to insert
    range_errs,         \* edges for which "Could not create quadkey" was printed
    panics,             \* edges whose closure panicked
    tiles,              \* Vec returned by collect()
    written,            \* per entry of tiles: "todo", "ok" or "err"
    result,             \* return value of read_osm_pbf, "none" before it returns
    qk,                 \* a call of tile_coord_to_quadkey
    sp,                 \* a run of the edge-splitting closure on one way
    dt,                 \* a run of the intersection scan
    mg,                 \* a reduction of partial results by PbfReaderResult::merge
    tc                  \* a call of lat_lon_to_tile_coord

pipeVars == <<file, pc, parsed_ways, active_nodes, node_table, intersection_nodes,
              new_edges, split_done, claimed, worker, buckets, lock, calls,
              range_errs, panics, tiles, written, result>>

vars == <<pipeVars, qk, sp, dt, mg, tc>>

----------------------------------------------------------------------------
(* Generic helpers *)

Min(a, b) == IF a < b THEN a ELSE b
Max(a, b) == IF a > b THEN a ELSE b

RECURSIVE Pow2(_)
Pow2(n) == IF n = 0 THEN 1 ELSE 2 * Pow2(n - 1)

Range(s) == {s[i] : i \in DOMAIN s}

----------------------------------------------------------------------------
(* utils.rs: geodetic tiling *)

\* width of the u32 fields of TileCoord and of the mask in tile_coord_to_quadkey
U32Bits == 32

\* the zoom read_osm_pbf tiles at
TileZoom == 7

Deg(hi, lo) == <<hi, lo>>

\* the f64 NaN: no coordinate has a negative second component
NaN == <<0, -1>>
IsNaN(a) == a = NaN

\* a < b on f64 coordinates: false when either side is NaN
CoordLess(a, b) ==
    /\ ~IsNaN(a) /\ ~IsNaN(b)
    /\ a[1] < b[1] \/ (a[1] = b[1] /\ a[2] < b[2])

\* 85.05112878 and 180.0, and their negations
LatMax == Deg(850511, 2878)
LatMin == Deg(-850512, 7122)
LonMax == Deg(1800000, 0)
LonMin == Deg(-1800000, 0)

\* Row k+1 holds the largest latitude for which
\*   floor((1 - ln(tan(lat_rad) + 1/cos(lat_rad)) / PI) / 2 * 2^7)
\* evaluated in f64 as in the source, is at least k, for k = 0..128.
\* (The value is -1 at 85.05112878 and 128 at -85.05112878.)
MercatorRowBound ==
    << <<850511, 2877>>, <<848024, 7372>>, <<845413, 6107>>, <<842671, 7240>>, <<839792, 5949>>,
       <<836769, 4304>>, <<833595, 1133>>, <<830262, 1885>>, <<826762, 8497>>, <<823088, 9251>>,
       <<819231, 8632>>, <<815182, 7187>>, <<810932, 1385>>, <<806470, 3474>>, <<801787, 1349>>,
       <<796871, 8415>>, <<791713, 3464>>, <<786300, 556>>, <<780619, 8918>>, <<774660, 2847>>,
       <<768408, 1641>>, <<761849, 9546>>, <<754971, 5731>>, <<747758, 4300>>, <<740195, 4331>>,
       <<732266, 9969>>, <<723957, 570>>, <<715249, 903>>, <<706126, 1423>>, <<696570, 8627>>,
       <<686565, 5498>>, <<676092, 2060>>, <<665132, 6044>>, <<653668, 3689>>, <<641681, 689>>,
       <<629152, 3303>>, <<616063, 9637>>, <<602398, 1116>>, <<588137, 4171>>, <<573265, 2122>>,
       <<557765, 7301>>, <<541624, 3396>>, <<524827, 8022>>, <<507364, 5513>>, <<489224, 9926>>,
       <<470401, 8214>>, <<450890, 3556>>, <<430688, 8777>>, <<409798, 9806>>, <<388225, 9097>>,
       <<365978, 8913>>, <<343071, 4385>>, <<319521, 6223>>, <<295352, 2956>>, <<270591, 2578>>,
       <<245271, 3482>>, <<219430, 4553>>, <<193111, 4335>>, <<166361, 9187>>, <<139234, 389>>,
       <<111784, 187>>, <<84071, 6816>>, <<56159, 8581>>, <<28113, 7119>>, <<0, 0>>,
       <<-28114, 2880>>, <<-56160, 1418>>, <<-84072, 3183>>, <<-111785, 9812>>, <<-139235, 9610>>,
       <<-166362, 812>>, <<-193112, 5664>>, <<-219431, 5446>>, <<-245272, 6517>>, <<-270592, 7421>>,
       <<-295353, 7043>>, <<-319522, 3776>>, <<-343072, 5614>>, <<-365979, 1086>>, <<-388226, 902>>,
       <<-409799, 193>>, <<-430689, 1222>>, <<-450891, 6443>>, <<-470402, 1785>>, <<-489225, 73>>,
       <<-507365, 4486>>, <<-524828, 1977>>, <<-541625, 6603>>, <<-557766, 2698>>, <<-573266, 7877>>,
       <<-588138, 5828>>, <<-602399, 8883>>, <<-616064, 362>>, <<-629153, 6696>>, <<-641682, 9310>>,
       <<-653669, 6310>>, <<-665133, 3955>>, <<-676093, 7939>>, <<-686566, 4501>>, <<-696571, 1372>>,
       <<-706127, 8576>>, <<-715250, 9096>>, <<-723958, 9429>>, <<-732267, 30>>, <<-740196, 5668>>,
       <<-747759, 5699>>, <<-754972, 4268>>, <<-761850, 453>>, <<-768409, 8358>>, <<-774661, 7152>>,
       <<-780620, 1081>>, <<-786301, 9443>>, <<-791714, 6535>>, <<-796872, 1584>>, <<-801788, 8650>>,
       <<-806471, 6525>>, <<-810933, 8614>>, <<-815183, 2812>>, <<-819232, 1367>>, <<-823089, 748>>,
       <<-826763, 1502>>, <<-830263, 8114>>, <<-833596, 8866>>, <<-836770, 5695>>, <<-839793, 4050>>,
       <<-842672, 2759>>, <<-845414, 3892>>, <<-848025, 2627>>, <<-850512, 7122>> >>


\* floor(... * n) of the latitude formula at zoom 7, before the cast to u32
MercatorRow7(lat) ==
    Cardinality({k \in DOMAIN MercatorRowBound :
                    ~CoordLess(MercatorRowBound[k], lat)}) - 1

\* floor((lon + 180) / 360 * 2^7): (lon + 180) / 360 * 128 = (hi + 1800000 + lo/10^4) / 28125
MercatorCol7(lon) == (lon[1] + 1800000) \div 28125

\* `as u32` on an f64 saturates: negative values become 0
AsU32(v) == Max(v, 0)

\* floor(...) as u32 of the two formulas at zoom <= 7; NaN propagates
\* through the arithmetic and is cast to 0
TileX(lon, zoom) ==
    IF IsNaN(lon) THEN 0 ELSE AsU32(MercatorCol7(lon) \div Pow2(TileZoom - zoom))
TileY(lat, zoom) ==
    IF IsNaN(lat) THEN 0 ELSE AsU32(MercatorRow7(lat) \div Pow2(TileZoom - zoom))

\* variant: the bounds themselves are rejected
RangeCheckExclusive(lat, lon) ==
    IF ~CoordLess(LatMin, lat) \/ ~CoordLess(lat, LatMax)
    THEN [ok |-> FALSE, err |-> "Latitude out of valid range"]
    ELSE IF ~CoordLess(LonMin, lon) \/ ~CoordLess(lon, LonMax)
    THEN [ok |-> FALSE, err |-> "Longitude out of valid range"]
    ELSE [ok |-> TRUE]

\* the two range checks at the head of lat_lon_to_tile_coord
RangeCheck(lat, lon) ==
    IF CoordLess(lat, LatMin) \/ CoordLess(LatMax, lat)
    THEN [ok |-> FALSE, err |-> "Latitude out of valid range"]
    ELSE IF CoordLess(lon, LonMin) \/ CoordLess(LonMax, lon)
    THEN [ok |-> FALSE, err |-> "Longitude out of valid range"]
    ELSE [ok |-> TRUE]

\* variant: the latitude check is missing
lat_lon_to_tile_coord_nolat(lat, lon, zoom) ==
    IF CoordLess(lon, LonMin) \/ CoordLess(LonMax, lon)
    THEN [ok |-> FALSE, err |-> "Longitude out of valid range"]
    ELSE LET x        == TileX(lon, zoom)
             y        == TileY(lat, zoom)
             max_tile == Pow2(zoom) - 1
         IN  [ok |-> TRUE, x |-> Min(x, max_tile), y |-> Min(y, max_tile), zoom |-> zoom]

\* n = 2^zoom scales the same f64 fraction exactly, so the value at zoom <= 7
\* is the zoom-7 value shifted right by 7 - zoom.
lat_lon_to_tile_coord(lat, lon, zoom) ==
    IF ~RangeCheck(lat, lon).ok THEN RangeCheck(lat, lon)
    ELSE LET x        == TileX(lon, zoom)
             y        == TileY(lat, zoom)
             max_tile == Pow2(zoom) - 1
         IN  [ok |-> TRUE, x |-> Min(x, max_tile), y |-> Min(y, max_tile), zoom |-> zoom]

\* std::char::from_digit(d, 10)
DigitChars == <<"0", "1", "2", "3", "4", "5", "6", "7", "8", "9">>
from_digit(d) == DigitChars[d + 1]

\* bit j of v
RECURSIVE BitOf(_, _)
BitOf(v, j) == IF j = 0 THEN v % 2 ELSE BitOf(v \div 2, j - 1)

\* (v & (1u32 << i)) != 0.  For i >= 32 the shift overflows: a build with
\* overflow checks panics, a build without shifts by i mod 32.
MaskHit(v, i) == BitOf(v, i % U32Bits) = 1

\* variant: x and y contribute the other way round
QuadkeyDigitSwapped(tile, i) ==
    (IF MaskHit(tile.y, i) THEN 1 ELSE 0) + (IF MaskHit(tile.x, i) THEN 2 ELSE 0)

\* body of the loop of tile_coord_to_quadkey for one i
QuadkeyDigit(tile, i) ==
    (IF MaskHit(tile.x, i) THEN 1 ELSE 0) + (IF MaskHit(tile.y, i) THEN 2 ELSE 0)

\* for i in (0..zoom).rev(): the digits for i = zoom-1 down to 0
RECURSIVE QuadkeyFrom(_, _)
QuadkeyFrom(tile, n) ==
    IF n = 0 THEN <<>>
    ELSE <<from_digit(QuadkeyDigit(tile, n - 1))>> \o QuadkeyFrom(tile, n - 1)

tile_coord_to_quadkey(tile) == QuadkeyFrom(tile, tile.zoom)

lat_lon_to_quadkey(lat, lon, zoom) ==
    LET tile == lat_lon_to_tile_coord(lat, lon, zoom)
    IN  IF tile.ok THEN [ok |-> TRUE, s |-> tile_coord_to_quadkey(tile)]
        ELSE tile

----------------------------------------------------------------------------
(* osm_parser.rs: elements of the extract, pass-1 and pass-2 extraction *)

\* An element of the extract as the element source hands it to the map
\* closure: kind is "Way", "Node", "DenseNode" or "Relation".
Element(kind, id, tags, refs, lat, lon) ==
    [kind |-> kind, id |-> id, tags |-> tags, refs |-> refs, lat |-> lat, lon |-> lon]

NoCoord == Deg(0, 0)

WayElem(id, tags, refs) == Element("Way", id, tags, refs, NoCoord, NoCoord)
NodeElem(kind, id, lat, lon) == Element(kind, id, <<>>, <<>>, lat, lon)

DrivableHighway ==
    {"motorway", "trunk", "primary", "secondary", "tertiary", "unclassified",
     "residential", "motorway_link", "trunk_link", "primary_link",
     "secondary_link", "tertiary_link"}

\* the `for (key, value) in way.tags()` loop, tag by tag
RECURSIVE ScanTags(_, _)
ScanTags(tags, acc) ==
    IF tags = <<>> THEN acc
    ELSE LET key   == Head(tags)[1]
             value == Head(tags)[2]
             next  == IF key = "highway" /\ value \in DrivableHighway
                        THEN [acc EXCEPT !.is_drivable = TRUE]
                      ELSE IF key = "name"
                        THEN [acc EXCEPT !.name = <<value>>]
                      ELSE IF key = "oneway" /\ value = "yes"
                        THEN [acc EXCEPT !.is_oneway = TRUE]
                      ELSE acc
         IN  ScanTags(Tail(tags), next)

StatsParsing(h, d, o, n) ==
    [num_highways |-> h, num_drivable |-> d, num_oneways |-> o, num_nodes |-> n]

\* PbfReaderResult::default()
DefaultResult ==
    [stats |-> StatsParsing(0, 0, 0, 0), map |-> [ways |-> <<>>, nodes |-> <<>>]]

\* name is <<>> for None and <<s>> for Some(s)
parse_way(way) ==
    LET t == ScanTags(way.tags, [is_drivable |-> FALSE, name |-> <<>>, is_oneway |-> FALSE])
        ways == IF t.is_drivable
                THEN << [id |-> way.id, name |-> t.name, is_oneway |-> t.is_oneway,
                         nodes |-> way.refs, polyline |-> ""] >>
                ELSE <<>>
    IN  [stats |-> StatsParsing(1, IF t.is_drivable THEN 1 ELSE 0,
                                IF t.is_oneway THEN 1 ELSE 0, 0),
         map   |-> [ways |-> ways, nodes |-> <<>>]]

\* impl SimpleNode: DenseNode forwards lat and lon; Node forwards lat for both
SimpleLat(node) == node.lat
SimpleLon(node) == IF node.kind = "Node" THEN node.lat ELSE node.lon

\* variant: the membership test is dropped
parse_node_unfiltered(node, nodes_of_interest) ==
    [stats |-> StatsParsing(0, 0, 0, 1),
     map   |-> [ways |-> <<>>,
                nodes |-> << <<node.id, [loc |-> [lat |-> SimpleLat(node),
                                                  lon |-> SimpleLon(node)]]>> >>]]

parse_node(node, nodes_of_interest) ==
    LET nodes == IF node.id \in nodes_of_interest
                 THEN << <<node.id, [loc |-> [lat |-> SimpleLat(node), lon |-> SimpleLon(node)]]>> >>
                 ELSE <<>>
    IN  [stats |-> StatsParsing(0, 0, 0, 1),
         map   |-> [ways |-> <<>>, nodes |-> nodes]]

StatsMerge(a, b) ==
    StatsParsing(a.num_highways + b.num_highways, a.num_drivable + b.num_drivable,
                 a.num_oneways + b.num_oneways, a.num_nodes + b.num_nodes)

\* variant: the ways of the other result are not taken over
MapMergeKeepSelf(a, b) == [ways |-> a.ways, nodes |-> a.nodes \o b.nodes]

\* Map::merge: Vec::extend on both lists
MapMerge(a, b) == [ways |-> a.ways \o b.ways, nodes |-> a.nodes \o b.nodes]

\* PbfReaderResult::merge
Merge(a, b) == [stats |-> StatsMerge(a.stats, b.stats), map |-> MapMerge(a.map, b.map)]

\* the map closures of the two par_map_reduce calls
MapPass1(element) ==
    IF element.kind = "Way" THEN parse_way(element) ELSE DefaultResult

MapPass2(element, active) ==
    IF element.kind \in {"Node", "DenseNode"} THEN parse_node(element, active)
    ELSE DefaultResult

\* all enumerations of a finite set without repetition
Orders(S) == {s \in [1..Cardinality(S) -> S] : Range(s) = S}

\* reduce_op folded over the mapped elements in the order the workers
\* deliver them, starting from the identity
RECURSIVE Reduce(_, _)
Reduce(results, acc) ==
    IF results = <<>> THEN acc
    ELSE Reduce(Tail(results), Merge(acc, Head(results)))

\* active_nodes: way.nodes of every kept way, flattened into a HashSet
ActiveNodes(ways) == UNION {Range(ways[i].nodes) : i \in DOMAIN ways}

\* collect::<HashMap<_, _>>() of (NodeId, Node) pairs: a later pair replaces
\* an earlier one with the same key
NodeTable(pairs) ==
    [id \in {pairs[i][1] : i \in DOMAIN pairs} |->
        LET last == CHOOSE i \in DOMAIN pairs :
                      /\ pairs[i][1] = id
                      /\ \A j \in DOMAIN pairs : pairs[j][1] = id => j <= i
        IN  pairs[last][2]]

----------------------------------------------------------------------------
(* osm_parser.rs: intersection detection and edge splitting *)

\* variant: a node counts as an intersection on its first visit
DetectNodeEager(d, node_id) ==
    [d EXCEPT !.seen = @ \cup {node_id}, !.inter = @ \cup {node_id}]

\* body of `for node_id in &way.nodes`; d = [seen, inter]
DetectNode(d, node_id) ==
    IF node_id \in d.seen
    THEN [d EXCEPT !.inter = @ \cup {node_id}]
    ELSE [d EXCEPT !.seen = @ \cup {node_id}]

RECURSIVE DetectWay(_, _)
DetectWay(d, nodes) ==
    IF nodes = <<>> THEN d ELSE DetectWay(DetectNode(d, Head(nodes)), Tail(nodes))

RECURSIVE DetectWays(_, _)
DetectWays(d, ways) ==
    IF ways = <<>> THEN d ELSE DetectWays(DetectWay(d, Head(ways).nodes), Tail(ways))

\* intersection_nodes after the scan of all kept ways
Intersections(ways) == DetectWays([seen |-> {}, inter |-> {}], ways).inter

\* State of the flat_map closure for one way: node_index is the next index
\* of the enumeration (0-based as in the source), warned counts the
\* "Produced edge with empty nodes" lines.
SplitStart ==
    [initial_node_index_on_edge |-> 0, node_index |-> 0, new_edges |-> <<>>, warned |-> 0]

\* way.nodes[a..b] of the source: 0-based, b exclusive
Slice(nodes, a, b) == SubSeq(nodes, a + 1, b)

\* variant: the first index is a cut point like any other
SplitIterCutFirst(way, inter, s) ==
    LET node_index == s.node_index
        init       == s.initial_node_index_on_edge
        nodes      == Slice(way.nodes, init, node_index)
        edge       == [from |-> way.nodes[init + 1], to |-> way.nodes[node_index + 1],
                       nodes |-> nodes, is_oneway |-> way.is_oneway]
    IN  IF way.nodes[node_index + 1] \notin inter
        THEN [s EXCEPT !.node_index = node_index + 1]
        ELSE IF nodes = <<>>
        THEN [s EXCEPT !.node_index = node_index + 1,
                       !.warned = @ + 1,
                       !.initial_node_index_on_edge = node_index]
        ELSE [s EXCEPT !.node_index = node_index + 1,
                       !.new_edges = Append(@, edge),
                       !.initial_node_index_on_edge = node_index]

\* variant: the cut boundary is not advanced after an edge
SplitIterNoAdvance(way, inter, s) ==
    LET node_index == s.node_index
        init       == s.initial_node_index_on_edge
        edge       == [from |-> way.nodes[init + 1], to |-> way.nodes[node_index + 1],
                       nodes |-> Slice(way.nodes, init, node_index),
                       is_oneway |-> way.is_oneway]
    IN  IF node_index = 0 \/ way.nodes[node_index + 1] \notin inter
        THEN [s EXCEPT !.node_index = node_index + 1]
        ELSE [s EXCEPT !.node_index = node_index + 1, !.new_edges = Append(@, edge)]

\* one iteration of `for (node_index, node_id) in way.nodes.iter().enumerate()`
SplitIter(way, inter, s) ==
    LET node_index == s.node_index
        node_id    == way.nodes[node_index + 1]
        init       == s.initial_node_index_on_edge
        from       == way.nodes[init + 1]
        to         == way.nodes[node_index + 1]
        nodes      == Slice(way.nodes, init, node_index)
        edge       == [from |-> from, to |-> to, nodes |-> nodes, is_oneway |-> way.is_oneway]
    IN  IF node_index = 0 \/ node_id \notin inter
        THEN [s EXCEPT !.node_index = node_index + 1]
        ELSE IF nodes = <<>>
        THEN [s EXCEPT !.node_index = node_index + 1,
                       !.warned = @ + 1,
                       !.initial_node_index_on_edge = node_index]
        ELSE [s EXCEPT !.node_index = node_index + 1,
                       !.new_edges = Append(@, edge),
                       !.initial_node_index_on_edge = node_index]

RECURSIVE SplitRun(_, _, _)
SplitRun(way, inter, s) ==
    IF s.node_index >= Len(way.nodes) THEN s
    ELSE SplitRun(way, inter, SplitIter(way, inter, s))

\* new_edges returned by the flat_map closure for one way
SplitWay(way, inter) == SplitRun(way, inter, SplitStart).new_edges

----------------------------------------------------------------------------
(* utils.rs: ParallelQuadkeyMap *)

NUM_BUCKETS == 100

DigitOf(c) == CHOOSE d \in 0..9 : DigitChars[d + 1] = c

\* DefaultHasher::new() hashes with fixed keys, so the hash is a fixed
\* function of the quadkey string.  Its value is not reproduced; the digits
\* read as a base-4 number stand for s.finish().
RECURSIVE HashOf(_, _)
HashOf(quadkey, h) ==
    IF quadkey = <<>> THEN h
    ELSE HashOf(Tail(quadkey), 4 * h + DigitOf(Head(quadkey)))

BucketIdx(quadkey) == HashOf(quadkey, 0) % NUM_BUCKETS

Buckets == 0..(NUM_BUCKETS - 1)

\* ParallelQuadkeyMap::new(): every bucket an empty table
NewMap == [b \in Buckets |-> <<>>]

\* variant: a new tile entry is created without the edge
EntryPushCreateOnly(table, quadkey, edge) ==
    IF quadkey \in DOMAIN table
    THEN [table EXCEPT ![quadkey].edges = Append(@, edge)]
    ELSE table @@ (quadkey :> [edges |-> <<>>])

\* variant: the tile entry is replaced instead of extended
EntryPushReplace(table, quadkey, edge) ==
    IF quadkey \in DOMAIN table
    THEN [table EXCEPT ![quadkey].edges = <<edge>>]
    ELSE table @@ (quadkey :> [edges |-> <<edge>>])

\* table.entry(quadkey).or_insert(Tile::default()); tile.edges.push(edge)
EntryPush(table, quadkey, edge) ==
    IF quadkey \in DOMAIN table
    THEN [table EXCEPT ![quadkey].edges = Append(@, edge)]
    ELSE table @@ (quadkey :> [edges |-> <<edge>>])

\* the (quadkey, tile) pairs of every bucket
Entries(map) ==
    UNION {{<<q, map[b][q]>> : q \in DOMAIN map[b]} : b \in Buckets}

----------------------------------------------------------------------------
(* Bounds and inputs of the pipeline *)

MaxNode == 3        \* node ids are 1..MaxNode
MaxRefs == 2        \* longest node sequence of a generated way
NumWorkers == 2     \* threads of the rayon pool

NodeIds == 1..MaxNode
Workers == 1..NumWorkers

\* all sequences over S of length at most n
RECURSIVE SeqsUpTo(_, _)
SeqsUpTo(S, n) ==
    IF n = 0 THEN {<<>>}
    ELSE LET shorter == SeqsUpTo(S, n - 1)
         IN  shorter \cup {Append(s, x) : s \in shorter, x \in S}

TagsOneway   == << <<"highway", "residential">>, <<"oneway", "yes">> >>
TagsLink     == << <<"name", "A1">>, <<"highway", "primary_link">>, <<"oneway", "no">> >>
TagsService  == << <<"highway", "service">>, <<"oneway", "yes">> >>
TagChoices   == {TagsOneway, TagsLink, TagsService}

Loc(lat, lon) == [lat |-> lat, lon |-> lon]
LocA   == Loc(Deg(485000, 0), Deg(725625, 0))     \* 48.5, 72.5625
LocB   == Loc(Deg(100000, 0), Deg(-1700000, 0))   \* 10.0, -170.0
LocOut == Loc(Deg(851000, 0), Deg(100000, 0))     \* 85.1, 10.0
Locs   == {LocA, LocB, LocOut}

\* a node element per id, or "absent" when the extract lacks the node
Absent == Element("absent", 0, <<>>, <<>>, NoCoord, NoCoord)
NodeChoices(id) ==
    {Absent} \cup {NodeElem(k, id, l.lat, l.lon) : k \in {"Node", "DenseNode"}, l \in Locs}

\* Extract 1: a generated way and a way over the nodes 1 and 2, over nodes
\* of which 1 lies in range, 2 lies out of range and the others are missing
\* from the extract.
StockNode(id) ==
    IF id = 1 THEN NodeElem("DenseNode", 1, LocA.lat, LocA.lon)
    ELSE IF id = 2 THEN NodeElem("DenseNode", 2, LocOut.lat, LocOut.lon)
    ELSE Absent

GeneratedWays ==
    {<<WayElem(1, t, r1), WayElem(2, TagsOneway, r2)>> :
        t \in TagChoices, r1 \in SeqsUpTo(NodeIds, MaxRefs), r2 \in SeqsUpTo({1, 2}, 2)}

\* Extract 2: two ways crossing at nodes 2 and 3, every node generated.
CrossingIds == {1, 2, 3}
CrossingWays ==
    <<WayElem(1, TagsOneway, <<1, 2, 3>>), WayElem(2, TagsLink, <<3, 2>>)>>

\* node elements in id order, missing ones left out
RECURSIVE NodeBlock(_, _)
NodeBlock(nodes, id) ==
    IF id \notin DOMAIN nodes THEN <<>>
    ELSE (IF nodes[id].kind = "absent" THEN <<>> ELSE <<nodes[id]>>) \o NodeBlock(nodes, id + 1)

Extracts ==
    {NodeBlock([id \in NodeIds |-> StockNode(id)], 1) \o ways : ways \in GeneratedWays}
    \cup
    {NodeBlock(nodes, 1) \o CrossingWays :
        nodes \in {n \in [CrossingIds -> UNION {NodeChoices(id) : id \in CrossingIds}] :
                        \A id \in CrossingIds : n[id] \in NodeChoices(id)}}

WorkerIdle == [pc |-> "idle", task |-> <<0, 0>>, quadkey |-> <<>>]

QkOff == [tile |-> [x |-> 0, y |-> 0, zoom |-> 0], n |-> 0, quadkey |-> <<>>,
          pc |-> "off", checked |-> FALSE]

MakeWay(id, is_oneway, nodes) ==
    [id |-> id, name |-> <<>>, is_oneway |-> is_oneway, nodes |-> nodes, polyline |-> ""]

SpOff == [way |-> MakeWay(0, FALSE, <<>>), inter |-> {}, s |-> SplitStart, pc |-> "off"]

DtOff == [ways |-> <<>>, w |-> 1, k |-> 1, d |-> [seen |-> {}, inter |-> {}], pc |-> "off"]

MgOff == [input |-> <<>>, parts |-> <<>>, pc |-> "off"]

TcOff == [lat |-> NoCoord, lon |-> NoCoord, zoom |-> 0, checked |-> FALSE,
          r |-> [ok |-> FALSE, err |-> ""], pc |-> "off"]

InitPipe(f, at) ==
    /\ file = f
    /\ pc = at
    /\ parsed_ways = DefaultResult
    /\ active_nodes = {}
    /\ node_table = <<>>
    /\ intersection_nodes = {}
    /\ new_edges = <<>>
    /\ split_done = {}
    /\ claimed = {}
    /\ worker = [t \in Workers |-> WorkerIdle]
    /\ buckets = NewMap
    /\ lock = [b \in Buckets |-> 0]
    /\ calls = <<>>
    /\ range_errs = {}
    /\ panics = {}
    /\ tiles = <<>>
    /\ written = <<>>
    /\ result = "none"

Init ==
    /\ \E f \in Extracts : InitPipe(f, "pass1")
    /\ mg = MgOff
    /\ tc = TcOff
    /\ qk = QkOff
    /\ sp = SpOff
    /\ dt = DtOff

----------------------------------------------------------------------------
(* read_osm_pbf *)

\* first par_map_reduce: the partial results are merged in the order the
\* pool delivers them
Pass1 ==
    /\ pc = "pass1"
    /\ \E order \in Orders(DOMAIN file) :
          parsed_ways' = Reduce([i \in DOMAIN order |-> MapPass1(file[order[i]])],
                                DefaultResult)
    /\ pc' = "active"
    /\ UNCHANGED <<file, active_nodes, node_table, intersection_nodes, new_edges,
                   split_done, claimed, worker, buckets, lock, calls, range_errs,
                   panics, tiles, written, result, qk, sp, dt, mg, tc>>

CollectActive ==
    /\ pc = "active"
    /\ active_nodes' = ActiveNodes(parsed_ways.map.ways)
    /\ pc' = "pass2"
    /\ UNCHANGED <<file, parsed_ways, node_table, intersection_nodes, new_edges,
                   split_done, claimed, worker, buckets, lock, calls, range_errs,
                   panics, tiles, written, result, qk, sp, dt, mg, tc>>

\* second par_map_reduce and the node lookup table built from its result
Pass2 ==
    /\ pc = "pass2"
    /\ \E order \in Orders(DOMAIN file) :
          LET parsed_nodes ==
                Reduce([i \in DOMAIN order |-> MapPass2(file[order[i]], active_nodes)],
                       DefaultResult)
          IN  node_table' = NodeTable(parsed_nodes.map.nodes)
    /\ pc' = "detect"
    /\ UNCHANGED <<file, parsed_ways, active_nodes, intersection_nodes, new_edges,
                   split_done, claimed, worker, buckets, lock, calls, range_errs,
                   panics, tiles, written, result, qk, sp, dt, mg, tc>>

\* the seen/intersection scan, then ParallelQuadkeyMap::new() and the start
\* of the parallel iterator over the ways
DetectIntersections ==
    /\ pc = "detect"
    /\ intersection_nodes' = Intersections(parsed_ways.map.ways)
    /\ new_edges' = [j \in DOMAIN parsed_ways.map.ways |-> <<>>]
    /\ buckets' = NewMap
    /\ pc' = "split"
    /\ UNCHANGED <<file, parsed_ways, active_nodes, node_table, split_done, claimed,
                   worker, lock, calls, range_errs, panics, tiles, written, result, qk, sp, dt, mg, tc>>

\* flat_map closure: a pool thread splits one way
SplitOneWay(t) ==
    /\ pc = "split"
    /\ worker[t].pc = "idle"
    /\ \E j \in DOMAIN parsed_ways.map.ways \ split_done :
          /\ new_edges' = [new_edges EXCEPT
                              ![j] = SplitWay(parsed_ways.map.ways[j], intersection_nodes)]
          /\ split_done' = split_done \cup {j}
    /\ UNCHANGED <<file, pc, parsed_ways, active_nodes, node_table, intersection_nodes,
                   claimed, worker, buckets, lock, calls, range_errs, panics, tiles,
                   written, result, qk, sp, dt, mg, tc>>

\* edges returned by flat_map and not yet handed to for_each
AllEdges == UNION {{<<j, k>> : k \in DOMAIN new_edges[j]} : j \in split_done}
PendingEdges == AllEdges \ claimed

EdgeOf(task) == new_edges[task[1]][task[2]]

\* for_each closure up to the call of collector.insert: the two unwraps and
\* the quadkey of the first node
Resolve(edge, table) ==
    IF edge.nodes = <<>> THEN [kind |-> "panic"]
    ELSE IF Head(edge.nodes) \notin DOMAIN table THEN [kind |-> "panic"]
    ELSE LET node == table[Head(edge.nodes)]
             r    == lat_lon_to_quadkey(node.loc.lat, node.loc.lon, TileZoom)
         IN  IF r.ok THEN [kind |-> "insert", quadkey |-> r.s]
             ELSE [kind |-> "error"]

ForEachEdge(t) ==
    /\ pc = "split"
    /\ worker[t].pc = "idle"
    /\ \E task \in PendingEdges :
          LET r == Resolve(EdgeOf(task), node_table) IN
          /\ claimed' = claimed \cup {task}
          /\ IF r.kind = "panic"
             THEN /\ panics' = panics \cup {task}
                  /\ UNCHANGED <<worker, calls, range_errs>>
             ELSE IF r.kind = "error"
             THEN /\ range_errs' = range_errs \cup {task}
                  /\ UNCHANGED <<worker, calls, panics>>
             ELSE /\ worker' = [worker EXCEPT
                                  ![t] = [pc |-> "insert", task |-> task, quadkey |-> r.quadkey]]
                  /\ calls' = calls @@ (task :> r.quadkey)
                  /\ UNCHANGED <<range_errs, panics>>
    /\ UNCHANGED <<file, pc, parsed_ways, active_nodes, node_table, intersection_nodes,
                   new_edges, split_done, buckets, lock, tiles, written, result, qk, sp, dt, mg, tc>>

\* ParallelQuadkeyMap::insert: bucket.lock()
InsertLock(t) ==
    /\ worker[t].pc = "insert"
    /\ lock[BucketIdx(worker[t].quadkey)] = 0
    /\ lock' = [lock EXCEPT ![BucketIdx(worker[t].quadkey)] = t]
    /\ worker' = [worker EXCEPT ![t].pc = "locked"]
    /\ UNCHANGED <<file, pc, parsed_ways, active_nodes, node_table, intersection_nodes,
                   new_edges, split_done, claimed, buckets, calls, range_errs, panics,
                   tiles, written, result, qk, sp, dt, mg, tc>>

\* variant: the guard is not dropped on return
InsertPushKeepLock(t) ==
    /\ worker[t].pc = "locked"
    /\ LET b == BucketIdx(worker[t].quadkey) IN
          buckets' = [buckets EXCEPT
                         ![b] = EntryPush(@, worker[t].quadkey, EdgeOf(worker[t].task))]
    /\ worker' = [worker EXCEPT ![t] = WorkerIdle]
    /\ UNCHANGED <<file, pc, parsed_ways, active_nodes, node_table, intersection_nodes,
                   new_edges, split_done, claimed, lock, calls, range_errs, panics, tiles,
                   written, result, qk, sp, dt, mg, tc>>

\* ParallelQuadkeyMap::insert: entry, push, and the guard dropped on return
InsertPush(t) ==
    /\ worker[t].pc = "locked"
    /\ LET b == BucketIdx(worker[t].quadkey) IN
          /\ buckets' = [buckets EXCEPT
                            ![b] = EntryPush(@, worker[t].quadkey, EdgeOf(worker[t].task))]
          /\ lock' = [lock EXCEPT ![b] = 0]
    /\ worker' = [worker EXCEPT ![t] = WorkerIdle]
    /\ UNCHANGED <<file, pc, parsed_ways, active_nodes, node_table, intersection_nodes,
                   new_edges, split_done, claimed, calls, range_errs, panics, tiles,
                   written, result, qk, sp, dt, mg, tc>>

PoolIdle == \A t \in Workers : worker[t].pc = "idle"

\* variant: for_each returns without waiting for the closures still running
JoinEarly ==
    /\ pc = "split"
    /\ panics = {}
    /\ split_done = DOMAIN parsed_ways.map.ways
    /\ PendingEdges = {}
    /\ pc' = "collect"
    /\ UNCHANGED <<file, parsed_ways, active_nodes, node_table, intersection_nodes,
                   new_edges, split_done, claimed, worker, buckets, lock, calls,
                   range_errs, panics, tiles, written, result, qk, sp, dt, mg, tc>>

\* for_each returns: every way was split and every edge handled
Join ==
    /\ pc = "split"
    /\ PoolIdle
    /\ panics = {}
    /\ split_done = DOMAIN parsed_ways.map.ways
    /\ PendingEdges = {}
    /\ pc' = "collect"
    /\ UNCHANGED <<file, parsed_ways, active_nodes, node_table, intersection_nodes,
                   new_edges, split_done, claimed, worker, buckets, lock, calls,
                   range_errs, panics, tiles, written, result, qk, sp, dt, mg, tc>>

\* a closure panicked: the pool waits for the running jobs and for_each
\* resumes the unwind in the caller; read_osm_pbf never returns
Abort ==
    /\ pc = "split"
    /\ PoolIdle
    /\ panics # {}
    /\ pc' = "aborted"
    /\ UNCHANGED <<file, parsed_ways, active_nodes, node_table, intersection_nodes,
                   new_edges, split_done, claimed, worker, buckets, lock, calls,
                   range_errs, panics, tiles, written, result, qk, sp, dt, mg, tc>>

\* ParallelQuadkeyMap::collect consumes the map; the order of the pairs is
\* the iteration order of the hash maps
Collect ==
    /\ pc = "collect"
    /\ tiles' \in Orders(Entries(buckets))
    /\ written' = [i \in 1..Cardinality(Entries(buckets)) |-> "todo"]
    /\ buckets' = NewMap
    /\ pc' = "write"
    /\ UNCHANGED <<file, parsed_ways, active_nodes, node_table, intersection_nodes,
                   new_edges, split_done, claimed, worker, lock, calls, range_errs,
                   panics, result, qk, sp, dt, mg, tc>>

\* the closure of tiles.par_iter().map: File::create and encode_into_std_write
\* succeed or fail
WriteTile(i) ==
    /\ pc = "write"
    /\ written[i] = "todo"
    /\ \E r \in {"ok", "err"} : written' = [written EXCEPT ![i] = r]
    /\ UNCHANGED <<file, pc, parsed_ways, active_nodes, node_table, intersection_nodes,
                   new_edges, split_done, claimed, worker, buckets, lock, calls,
                   range_errs, panics, tiles, result, qk, sp, dt, mg, tc>>

\* _results is collected and dropped; Ok(()) is returned
Return ==
    /\ pc = "write"
    /\ \A i \in DOMAIN written : written[i] # "todo"
    /\ result' = "Ok"
    /\ pc' = "done"
    /\ UNCHANGED <<file, parsed_ways, active_nodes, node_table, intersection_nodes,
                   new_edges, split_done, claimed, worker, buckets, lock, calls,
                   range_errs, panics, tiles, written, qk, sp, dt, mg, tc>>

Next ==
    \/ Pass1
    \/ CollectActive
    \/ Pass2
    \/ DetectIntersections
    \/ \E t \in Workers : SplitOneWay(t)
    \/ \E t \in Workers : ForEachEdge(t)
    \/ \E t \in Workers : InsertLock(t)
    \/ \E t \in Workers : InsertPush(t)
    \/ Join
    \/ Abort
    \/ Collect
    \/ \E i \in DOMAIN written : WriteTile(i)
    \/ Return

Spec == Init /\ [][Next]_vars

\* The pool threads are scheduled fairly: a thread that can take the lock
\* it waits for, or finish its insert, eventually does.
FairInserts ==
    \A t \in Workers : WF_vars(InsertLock(t)) /\ WF_vars(InsertPush(t))

\* the crossing ways over dense nodes: present anywhere or missing
FairExtracts ==
    {NodeBlock(nodes, 1) \o CrossingWays :
        nodes \in {n \in [CrossingIds -> UNION {NodeChoices(id) : id \in CrossingIds}] :
                        \A id \in CrossingIds :
                            n[id] \in NodeChoices(id) /\ n[id].kind # "Node"}}

InitFair ==
    /\ \E f \in FairExtracts : InitPipe(f, "pass1")
    /\ qk = QkOff
    /\ sp = SpOff
    /\ dt = DtOff
    /\ mg = MgOff
    /\ tc = TcOff

SpecFair == InitFair /\ [][Next]_vars /\ FairInserts

----------------------------------------------------------------------------
(* tile_coord_to_quadkey, iteration by iteration *)

MaxZoom == 3        \* zooms 0..MaxZoom are generated with every x, y below 2^zoom

Zooms == (0..MaxZoom) \cup {U32Bits, U32Bits + 1}

\* tile coordinates generated at a zoom
CoordsAt(zoom) == 0..(Pow2(Min(zoom, MaxZoom)) - 1)

InitQuadkey ==
    /\ InitPipe(<<>>, "off")
    /\ mg = MgOff
    /\ tc = TcOff
    /\ sp = SpOff
    /\ dt = DtOff
    /\ \E zoom \in Zooms, checked \in BOOLEAN :
       \E x \in CoordsAt(zoom), y \in CoordsAt(zoom) :
          qk = [tile |-> [x |-> x, y |-> y, zoom |-> zoom], n |-> zoom,
                quadkey |-> <<>>, pc |-> "loop", checked |-> checked]

\* one iteration of `for i in (0..tile.zoom).rev()`, i = qk.n - 1
QuadkeyLoop ==
    /\ qk.pc = "loop"
    /\ qk.n > 0
    /\ qk.checked => qk.n - 1 < U32Bits
    /\ qk' = [qk EXCEPT
                !.n = @ - 1,
                !.quadkey = Append(@, from_digit(QuadkeyDigit(qk.tile, qk.n - 1)))]
    /\ UNCHANGED <<pipeVars, sp, dt, mg, tc>>

\* `1u32 << i` with i >= 32 in a build with overflow checks
QuadkeyOverflow ==
    /\ qk.pc = "loop"
    /\ qk.n > 0
    /\ qk.checked
    /\ qk.n - 1 >= U32Bits
    /\ qk' = [qk EXCEPT !.pc = "panic"]
    /\ UNCHANGED <<pipeVars, sp, dt, mg, tc>>

QuadkeyReturn ==
    /\ qk.pc = "loop"
    /\ qk.n = 0
    /\ qk' = [qk EXCEPT !.pc = "done"]
    /\ UNCHANGED <<pipeVars, sp, dt, mg, tc>>

NextQuadkey == QuadkeyLoop \/ QuadkeyOverflow \/ QuadkeyReturn

SpecQuadkey == InitQuadkey /\ [][NextQuadkey]_vars

----------------------------------------------------------------------------
(* the edge-splitting closure, iteration by iteration *)

MaxWayLen == 3      \* longest node sequence of a way given to the splitter

InitSplit ==
    /\ InitPipe(<<>>, "off")
    /\ mg = MgOff
    /\ tc = TcOff
    /\ qk = QkOff
    /\ dt = DtOff
    /\ \E nodes \in SeqsUpTo(NodeIds, MaxWayLen), is_oneway \in BOOLEAN,
          others \in SUBSET NodeIds :
          \* a node the way itself repeats is an intersection; any other
          \* node may be one through the other ways
          sp = [way |-> MakeWay(1, is_oneway, nodes),
                inter |-> Intersections(<<MakeWay(1, is_oneway, nodes)>>) \cup others,
                s |-> SplitStart, pc |-> "loop"]

SplitLoop ==
    /\ sp.pc = "loop"
    /\ sp.s.node_index < Len(sp.way.nodes)
    /\ sp' = [sp EXCEPT !.s = SplitIter(sp.way, sp.inter, sp.s)]
    /\ UNCHANGED <<pipeVars, qk, dt, mg, tc>>

SplitReturn ==
    /\ sp.pc = "loop"
    /\ sp.s.node_index >= Len(sp.way.nodes)
    /\ sp' = [sp EXCEPT !.pc = "done"]
    /\ UNCHANGED <<pipeVars, qk, dt, mg, tc>>

NextSplit == SplitLoop \/ SplitReturn

SpecSplit == InitSplit /\ [][NextSplit]_vars

----------------------------------------------------------------------------
(* the intersection scan, node by node *)

MaxScanWays == 2    \* most ways given to the scan
MaxScanNodes == 5   \* most nodes of the ways given to the scan, all together

\* The scan only compares node ids, so its inputs are taken up to renaming:
\* the ids of a scanned sequence are numbered in the order they first occur.
RECURSIVE ScanSeqs(_)
ScanSeqs(n) ==
    IF n = 0 THEN {<<>>}
    ELSE LET shorter == ScanSeqs(n - 1)
         IN  shorter \cup
             UNION {{Append(s, x) : x \in 1..Min(MaxNode, Cardinality(Range(s)) + 1)} :
                        s \in shorter}

\* the ways to cut a node sequence into k ways, empty ways included
RECURSIVE ScanCuts(_, _)
ScanCuts(s, k) ==
    IF k = 0 THEN (IF s = <<>> THEN {<<>>} ELSE {})
    ELSE UNION {{<<SubSeq(s, 1, i)>> \o rest : rest \in ScanCuts(SubSeq(s, i + 1, Len(s)), k - 1)} :
                    i \in 0..Len(s)}

InitDetect ==
    /\ InitPipe(<<>>, "off")
    /\ mg = MgOff
    /\ tc = TcOff
    /\ qk = QkOff
    /\ sp = SpOff
    /\ \E s \in ScanSeqs(MaxScanNodes), k \in 0..MaxScanWays :
       \E seqs \in ScanCuts(s, k) :
          dt = [ways |-> [i \in DOMAIN seqs |-> MakeWay(i, FALSE, seqs[i])],
                w |-> 1, k |-> 1, d |-> [seen |-> {}, inter |-> {}], pc |-> "loop"]

\* inner loop: the next node of the current way
DetectVisit ==
    /\ dt.pc = "loop"
    /\ dt.w <= Len(dt.ways)
    /\ dt.k <= Len(dt.ways[dt.w].nodes)
    /\ dt' = [dt EXCEPT !.d = DetectNode(dt.d, dt.ways[dt.w].nodes[dt.k]),
                        !.k = @ + 1]
    /\ UNCHANGED <<pipeVars, qk, sp, mg, tc>>

\* outer loop: the current way is exhausted
DetectNextWay ==
    /\ dt.pc = "loop"
    /\ dt.w <= Len(dt.ways)
    /\ dt.k > Len(dt.ways[dt.w].nodes)
    /\ dt' = [dt EXCEPT !.w = @ + 1, !.k = 1]
    /\ UNCHANGED <<pipeVars, qk, sp, mg, tc>>

DetectDone ==
    /\ dt.pc = "loop"
    /\ dt.w > Len(dt.ways)
    /\ dt' = [dt EXCEPT !.pc = "done"]
    /\ UNCHANGED <<pipeVars, qk, sp, mg, tc>>

NextDetect == DetectVisit \/ DetectNextWay \/ DetectDone

SpecDetect == InitDetect /\ [][NextDetect]_vars

----------------------------------------------------------------------------
(* the reduction of par_map_reduce: partial results merged pairwise, in the
   order and grouping the pool happens to produce *)

MaxParts == 3       \* partial results handed to the reduction

\* partial results as the map closures of the two passes return them
MergePool ==
    {DefaultResult}
    \cup {MapPass1(WayElem(i, t, <<1, 2>>)) : i \in 1..2, t \in {TagsOneway, TagsService}}
    \cup {MapPass2(NodeElem("DenseNode", id, LocA.lat, LocA.lon), {1, 2}) : id \in 1..2}

InitMerge ==
    /\ InitPipe(<<>>, "off")
    /\ qk = QkOff
    /\ sp = SpOff
    /\ dt = DtOff
    /\ tc = TcOff
    /\ \E input \in [1..MaxParts -> MergePool] :
          mg = [input |-> input, parts |-> input, pc |-> "reduce"]

\* the partial results at the positions not in drop, from position k on
RECURSIVE Others(_, _, _)
Others(parts, drop, k) ==
    IF k > Len(parts) THEN <<>>
    ELSE (IF k \in drop THEN <<>> ELSE <<parts[k]>>) \o Others(parts, drop, k + 1)

\* reduce_op applied to two of the pending partial results: a.merge(b)
MergePair(i, j) ==
    /\ mg.pc = "reduce"
    /\ i \in DOMAIN mg.parts /\ j \in DOMAIN mg.parts /\ i # j
    /\ mg' = [mg EXCEPT !.parts = <<Merge(mg.parts[i], mg.parts[j])>> \o Others(mg.parts, {i, j}, 1)]
    /\ UNCHANGED <<pipeVars, qk, sp, dt, tc>>

\* one result is left: par_map_reduce returns it
MergeReturn ==
    /\ mg.pc = "reduce"
    /\ Len(mg.parts) = 1
    /\ mg' = [mg EXCEPT !.pc = "done"]
    /\ UNCHANGED <<pipeVars, qk, sp, dt, tc>>

NextMerge ==
    \/ \E i \in 1..MaxParts, j \in 1..MaxParts : MergePair(i, j)
    \/ MergeReturn

SpecMerge == InitMerge /\ [][NextMerge]_vars

----------------------------------------------------------------------------
(* lat_lon_to_tile_coord, one call *)

\* latitudes and longitudes around the bounds of the range checks
TileLats ==
    {LatMax, Deg(850511, 2879), Deg(850511, 2870), Deg(851000, 0), Deg(900000, 0),
     Deg(0, 0), Deg(485000, 0), LatMin, Deg(-850512, 7121), Deg(-851000, 0), NaN}
TileLons ==
    {LonMax, Deg(1800000, 1), Deg(1801000, 0), Deg(0, 0), Deg(725625, 0),
     LonMin, Deg(-1800001, 9999), Deg(-1700000, 0), NaN}

\* zooms up to the one the pipeline uses, and the width of the clamp's shift
TileZooms == (0..TileZoom) \cup {U32Bits}

InitTile ==
    /\ InitPipe(<<>>, "off")
    /\ qk = QkOff
    /\ sp = SpOff
    /\ dt = DtOff
    /\ mg = MgOff
    /\ \E lat \in TileLats, lon \in TileLons, zoom \in TileZooms, checked \in BOOLEAN :
          tc = [lat |-> lat, lon |-> lon, zoom |-> zoom, checked |-> checked,
                r |-> [ok |-> FALSE, err |-> ""], pc |-> "call"]

\* a check fails: bail!
TileBail ==
    /\ tc.pc = "call"
    /\ ~RangeCheck(tc.lat, tc.lon).ok
    /\ tc' = [tc EXCEPT !.r = lat_lon_to_tile_coord(tc.lat, tc.lon, tc.zoom),
                        !.pc = "done"]
    /\ UNCHANGED <<pipeVars, qk, sp, dt, mg>>

\* both checks pass at a zoom below 32
TileReturn ==
    /\ tc.pc = "call"
    /\ RangeCheck(tc.lat, tc.lon).ok
    /\ tc.zoom < U32Bits
    /\ tc' = [tc EXCEPT !.r = lat_lon_to_tile_coord(tc.lat, tc.lon, tc.zoom), !.pc = "done"]
    /\ UNCHANGED <<pipeVars, qk, sp, dt, mg>>

\* `1 << zoom` on a u32 with zoom >= 32 in a build with overflow checks
TileOverflow ==
    /\ tc.pc = "call"
    /\ RangeCheck(tc.lat, tc.lon).ok
    /\ tc.zoom >= U32Bits
    /\ tc.checked
    /\ tc' = [tc EXCEPT !.pc = "panic"]
    /\ UNCHANGED <<pipeVars, qk, sp, dt, mg>>

\* the same in a build without: the shift is by zoom mod 32, so at zoom 32
\* max_tile is (1 << 0) - 1 = 0 and both x and y are clamped to it
TileWrapped ==
    /\ tc.pc = "call"
    /\ RangeCheck(tc.lat, tc.lon).ok
    /\ tc.zoom = U32Bits
    /\ ~tc.checked
    /\ tc' = [tc EXCEPT !.r = [ok |-> TRUE, x |-> 0, y |-> 0, zoom |-> tc.zoom], !.pc = "done"]
    /\ UNCHANGED <<pipeVars, qk, sp, dt, mg>>

NextTile == TileBail \/ TileReturn \/ TileOverflow \/ TileWrapped

SpecTile == InitTile /\ [][NextTile]_vars

----------------------------------------------------------------------------
(* Properties *)

\* number of positions of seq holding e
CountIn(seq, e) == Cardinality({i \in DOMAIN seq : seq[i] = e})

RECURSIVE SumLens(_)
SumLens(ts) == IF ts = <<>> THEN 0 ELSE Len(Head(ts)[2].edges) + SumLens(Tail(ts))

Collected == pc \in {"write", "done"}

\* quadkey at zoom 7 of the coordinate the node table holds for the first
\* node of an edge
FirstNodeQuadkey(edge) ==
    lat_lon_to_quadkey(node_table[Head(edge.nodes)].loc.lat,
                       node_table[Head(edge.nodes)].loc.lon, TileZoom).s

\* insert calls made with an edge equal to e
CallsOf(e) == {task \in DOMAIN calls : EdgeOf(task) = e}

C2_EdgeEndpointsInclusive ==
    \A task \in AllEdges :
        LET e == EdgeOf(task)
        IN  /\ e.nodes # <<>>
            /\ e.from = e.nodes[1]
            /\ e.to = e.nodes[Len(e.nodes)]

\* the edges the splitter has emitted so far
Emitted == sp.s.new_edges

\* 0-based indices i >= 1 below n whose node is an intersection
CutsBelow(n) == {i \in 1..(n - 1) : sp.way.nodes[i + 1] \in sp.inter}

\* the cuts in increasing order
CutSeq(n) ==
    CHOOSE c \in [1..Cardinality(CutsBelow(n)) -> CutsBelow(n)] :
        \A a, b \in DOMAIN c : a < b => c[a] < c[b]

\* C3: after the indices below n are visited, the emitted edges are, in
\* order, one per index i >= 1 whose node is an intersection; the edge of
\* the k-th such index runs from the node at the previous such index (index
\* 0 for the first) to the node at that index and carries the way's oneway
\* flag; the cut index is the last such index (0 if none).
C3_OneEdgePerCut ==
    sp.pc # "off" =>
        LET n    == sp.s.node_index
            cuts == CutSeq(n)
        IN  /\ Len(Emitted) = Len(cuts)
            /\ \A k \in DOMAIN cuts :
                  /\ Emitted[k].from = sp.way.nodes[(IF k = 1 THEN 0 ELSE cuts[k - 1]) + 1]
                  /\ Emitted[k].to = sp.way.nodes[cuts[k] + 1]
                  /\ Emitted[k].is_oneway = sp.way.is_oneway
            /\ sp.s.initial_node_index_on_edge =
                  (IF cuts = <<>> THEN 0 ELSE cuts[Len(cuts)])
            /\ (sp.pc = "done" => n = Len(sp.way.nodes))

\* a finished way of three nodes whose first node is an intersection too:
\* two edges, none from index 0
C3_Witness ==
    /\ sp.pc = "done"
    /\ Len(sp.way.nodes) = 3
    /\ sp.way.nodes[1] \in sp.inter
    /\ Len(Emitted) = 2
    /\ sp.way.is_oneway

\* node sequences of the ways, one after the other
RECURSIVE Concat(_)
Concat(ways) == IF ways = <<>> THEN <<>> ELSE Head(ways).nodes \o Concat(Tail(ways))

\* the nodes the scan has visited
Scanned ==
    Concat(SubSeq(dt.ways, 1, dt.w - 1)) \o
        (IF dt.w <= Len(dt.ways) THEN SubSeq(dt.ways[dt.w].nodes, 1, dt.k - 1) ELSE <<>>)

\* C4: the intersection set holds exactly the node ids visited at least
\* twice; at the end of the scan these are the ids occurring at least twice
\* in all the ways together, and scanning the ways in any other order gives
\* the same set.
C4_IntersectionsAreRepeats ==
    dt.pc # "off" =>
        /\ dt.d.inter = {n \in NodeIds : CountIn(Scanned, n) >= 2}
        /\ dt.pc = "done" =>
              /\ Scanned = Concat(dt.ways)
              /\ \A o \in Orders(DOMAIN dt.ways) :
                    Intersections([i \in DOMAIN o |-> dt.ways[o[i]]]) = dt.d.inter

\* two ways scanned: one node shared by both, one repeated within a way,
\* one seen once
C4_Witness ==
    /\ dt.pc = "done"
    /\ Len(dt.ways) = 2
    /\ \E a, b, c \in NodeIds :
          /\ CountIn(dt.ways[1].nodes, a) = 1 /\ CountIn(dt.ways[2].nodes, a) = 1
          /\ CountIn(dt.ways[1].nodes, b) = 2 /\ CountIn(dt.ways[2].nodes, b) = 0
          /\ CountIn(Concat(dt.ways), c) = 1
          /\ dt.d.inter = {a, b}

\* node ids referenced by the ways pass 1 kept
KeptUnion == ActiveNodes(parsed_ways.map.ways)

\* ids of the node elements of the extract
FileNodeIds ==
    {file[i].id : i \in {j \in DOMAIN file : file[j].kind \in {"Node", "DenseNode"}}}

WayElements == {i \in DOMAIN file : file[i].kind = "Way"}

PastPass2 == pc \in {"detect", "split", "collect", "write", "done", "aborted"}

\* C5 as stated: the ids retained by pass 2 are exactly the ids referenced
\* by kept ways.
C5_RetainedEqualsUnion ==
    PastPass2 => DOMAIN node_table = KeptUnion

\* C5 as amended: the ids retained by pass 2 are exactly the ids referenced
\* by kept ways that occur as a node element of the extract; the active set
\* is the set of ids referenced by kept ways and is built only once pass 1
\* has mapped every way element, and pass 2 retains nothing before that.
C5_RetainedIsUnionInFile ==
    /\ PastPass2 => DOMAIN node_table = KeptUnion \cap FileNodeIds
    /\ pc = "pass2" \/ PastPass2 => active_nodes = KeptUnion
    /\ pc \in {"active", "pass2"} \/ PastPass2 =>
          parsed_ways.stats.num_highways = Cardinality(WayElements)
    /\ pc \in {"pass1", "active"} => active_nodes = {} /\ node_table = <<>>

\* pass 2 is over: a node of the extract is not retained, a referenced id
\* is missing from the extract, and an id is retained
C5_Witness ==
    /\ pc = "detect"
    /\ FileNodeIds \ KeptUnion # {}
    /\ KeptUnion \ FileNodeIds # {}
    /\ DOMAIN node_table # {}

\* the first node of the edge is missing from the node table
MissingFirst(task) == Head(EdgeOf(task).nodes) \notin DOMAIN node_table

\* C6: an edge whose first node is missing from the node table is logged
\* and skipped: its closure does not panic and the run is not aborted.
C6_MissingNodeSkipped ==
    \A task \in claimed :
        MissingFirst(task) => task \notin panics /\ pc # "aborted"

\* the coordinate lies in [-85.05112878, 85.05112878] x [-180, 180]
InRange(loc) ==
    /\ ~CoordLess(loc.lat, LatMin) /\ ~CoordLess(LatMax, loc.lat)
    /\ ~CoordLess(loc.lon, LonMin) /\ ~CoordLess(LonMax, loc.lon)

FirstLoc(task) == node_table[Head(EdgeOf(task).nodes)].loc

\* edges held by the map or by the collected tiles
StoredEdges ==
    UNION {Range(en[2].edges) : en \in Entries(buckets)}
        \cup UNION {Range(tiles[i][2].edges) : i \in DOMAIN tiles}

\* the for_each closure has returned for the edge
Handled(task) ==
    /\ task \in claimed
    /\ \A t \in Workers : worker[t].task # task

\* C7 (state part): an edge whose first node lies out of range gets the
\* range error and is stored in no tile; an edge whose first node lies in
\* range is passed to insert, and is stored once its closure has returned;
\* when for_each has returned every edge was handled this way.
C7_RangeState ==
    /\ \A task \in claimed \ panics :
          IF InRange(FirstLoc(task))
          THEN /\ task \in DOMAIN calls /\ task \notin range_errs
               /\ (Handled(task) /\ pc \in {"split", "collect"}
                      => EdgeOf(task) \in StoredEdges)
          ELSE /\ task \in range_errs /\ task \notin DOMAIN calls
               /\ EdgeOf(task) \notin StoredEdges
    /\ pc \in {"collect", "write", "done"} =>
          /\ claimed = AllEdges
          /\ \A task \in AllEdges : InRange(FirstLoc(task)) => EdgeOf(task) \in StoredEdges

\* C7 (step part): the step that reports a range error changes neither the
\* map nor the locks, raises no panic and leaves the run where it is.
C7_RangeStep ==
    range_errs' # range_errs =>
        /\ buckets' = buckets /\ lock' = lock /\ calls' = calls
        /\ panics' = panics /\ pc' = pc /\ worker' = worker

C8_WriteFailureReported ==
    pc = "done" =>
        /\ \A i \in DOMAIN written : written[i] # "todo"
        /\ (\E i \in DOMAIN written : written[i] = "err") => result # "Ok"

\* C9: every way kept by pass 1 has at least two node ids.
C9_KeptWaysHaveTwoNodes ==
    \A i \in DOMAIN parsed_ways.map.ways : Len(parsed_ways.map.ways[i].nodes) >= 2

QuadChars == <<"0", "1", "2", "3">>

\* the digit the claim gives for position k (1-based) of the quadkey
ClaimedChar(tile, k) ==
    QuadChars[BitOf(tile.x, tile.zoom - k) + 2 * BitOf(tile.y, tile.zoom - k) + 1]

\* the call returned the string the claim describes
QuadkeyAsClaimed ==
    /\ qk.pc = "done"
    /\ Len(qk.quadkey) = qk.tile.zoom
    /\ \A k \in 1..qk.tile.zoom : qk.quadkey[k] = ClaimedChar(qk.tile, k)
    /\ \A x \in CoordsAt(qk.tile.zoom), y \in CoordsAt(qk.tile.zoom) :
          tile_coord_to_quadkey([x |-> x, y |-> y, zoom |-> qk.tile.zoom]) = qk.quadkey
              => x = qk.tile.x /\ y = qk.tile.y

\* the call is over: it returned or it panicked
QuadkeyOver == qk.pc \in {"done", "panic"}

\* C10 as stated: for every (x, y, zoom) the call returns zoom characters,
\* the k-th being bit zoom-1-k of x plus twice bit zoom-1-k of y, and no
\* other (x, y) below 2^zoom gets the same string.
C10_QuadkeyDigits ==
    QuadkeyOver => QuadkeyAsClaimed

\* C10 as amended: the same for every zoom up to 32, the width of the mask.
C10_QuadkeyDigitsUpTo32 ==
    QuadkeyOver /\ qk.tile.zoom <= U32Bits => QuadkeyAsClaimed

\* a zoom-3 call returned for a tile with different x and y bits
C10_Witness ==
    /\ qk.pc = "done"
    /\ qk.tile = [x |-> 5, y |-> 3, zoom |-> 3]
    /\ qk.quadkey = <<"1", "2", "3">>

StatFields == {"num_highways", "num_drivable", "num_oneways", "num_nodes"}
ListFields == {"ways", "nodes"}

\* sum of a counter over partial results
RECURSIVE SumStat(_, _)
SumStat(parts, f) ==
    IF parts = <<>> THEN 0 ELSE Head(parts).stats[f] + SumStat(Tail(parts), f)

\* occurrences of e in a list of the partial results, all together
RECURSIVE SumCount(_, _, _)
SumCount(parts, f, e) ==
    IF parts = <<>> THEN 0 ELSE CountIn(Head(parts).map[f], e) + SumCount(Tail(parts), f, e)

ListItems(parts, f) == UNION {Range(parts[i].map[f]) : i \in DOMAIN parts}

\* same counters, and the same ways and nodes as often, whatever their order
SameUpToOrder(a, b) ==
    /\ a.stats = b.stats
    /\ \A f \in ListFields : \A e \in Range(a.map[f]) \cup Range(b.map[f]) :
          CountIn(a.map[f], e) = CountIn(b.map[f], e)

\* C11 as stated: merge is associative and commutative, and whatever the
\* order and grouping of the merges the final aggregate is the same.
C11_MergeAnyOrderSame ==
    mg.pc = "done" =>
        /\ \A i, j \in DOMAIN mg.input :
              Merge(mg.input[i], mg.input[j]) = Merge(mg.input[j], mg.input[i])
        /\ mg.parts[1] = Reduce(mg.input, DefaultResult)

\* C11 as amended: merge is associative; it is commutative up to the order
\* of the way and node lists; whatever the order and grouping of the merges,
\* the pending results hold together the counters' sums and every way and
\* node of the partial results as often as these hold it, so the final
\* aggregate is the same up to that order.
C11_MergeSameUpToOrder ==
    mg.pc # "off" =>
        /\ \A i, j, k \in DOMAIN mg.input :
              Merge(Merge(mg.input[i], mg.input[j]), mg.input[k]) =
                  Merge(mg.input[i], Merge(mg.input[j], mg.input[k]))
        /\ \A i, j \in DOMAIN mg.input :
              SameUpToOrder(Merge(mg.input[i], mg.input[j]), Merge(mg.input[j], mg.input[i]))
        /\ \A f \in StatFields : SumStat(mg.parts, f) = SumStat(mg.input, f)
        /\ \A f \in ListFields : \A e \in ListItems(mg.input, f) \cup ListItems(mg.parts, f) :
              SumCount(mg.parts, f, e) = SumCount(mg.input, f, e)
        /\ mg.pc = "done" =>
              /\ Len(mg.parts) = 1
              /\ SameUpToOrder(mg.parts[1], Reduce(mg.input, DefaultResult))

\* a reduction of two ways and a node has returned an aggregate whose way
\* list is in another order than that of the partial results
C11_Witness ==
    /\ mg.pc = "done"
    /\ Len(mg.parts[1].map.ways) = 2
    /\ Len(mg.parts[1].map.nodes) = 1
    /\ mg.parts[1].map.ways # Reduce(mg.input, DefaultResult).map.ways

CollectStarted == pc \in {"collect", "write", "done"}

\* C12 (state part): once for_each has returned no worker is inside insert
\* and no bucket is locked; before collect() has returned there is no tile
\* and no write; after it the map is drained and every returned pair has
\* one write, all of them attempted when read_osm_pbf returns.
C12_CollectState ==
    /\ CollectStarted =>
          /\ PoolIdle
          /\ \A b \in Buckets : lock[b] = 0
          /\ \A task \in DOMAIN calls : Handled(task)
    /\ ~Collected => tiles = <<>> /\ written = <<>>
    /\ Collected =>
          /\ buckets = NewMap
          /\ DOMAIN written = DOMAIN tiles
    /\ pc = "done" => \A i \in DOMAIN written : written[i] # "todo"

\* C12 (step part): insert is called and the map grows only before collect()
\* starts; collect() returns its pairs once; a write is attempted only after
\* collect() has returned, one pair at a time, and never a second time.
C12_CollectStep ==
    /\ calls' # calls => pc = "split" /\ pc' = "split"
    /\ buckets' # buckets => (pc = "split" /\ pc' = "split") \/ (pc = "collect" /\ pc' = "write")
    /\ tiles' # tiles => pc = "collect" /\ pc' = "write" /\ tiles = <<>>
    /\ CollectStarted => worker' = worker /\ lock' = lock
    /\ written' # written =>
          \/ pc = "collect" /\ pc' = "write" /\ \A i \in DOMAIN written' : written'[i] = "todo"
          \/ /\ pc = "write" /\ tiles' = tiles
             /\ \E i \in DOMAIN written :
                   /\ written[i] = "todo" /\ written'[i] # "todo"
                   /\ \A k \in DOMAIN written \ {i} : written'[k] = written[k]

\* C12: collect() starts only after every insert has returned, no insert
\* happens after it has started, and every pair it returns has its write
\* attempted exactly once, after collect() has finished.
C12_CollectAfterInsertsWriteOnce == []C12_CollectState /\ [][C12_CollectStep]_vars

\* the run returned after three inserts and the writes of two tiles, one of
\* which failed
C12_Witness ==
    /\ pc = "done"
    /\ Cardinality(DOMAIN calls) = 3
    /\ Len(tiles) = 2
    /\ \E i, k \in DOMAIN written : written[i] = "ok" /\ written[k] = "err"

\* lo <= v <= hi as real numbers: a NaN lies in no interval
Within(v, lo, hi) ==
    /\ ~IsNaN(v)
    /\ (v = lo \/ CoordLess(lo, v))
    /\ (v = hi \/ CoordLess(v, hi))

TileInside == Within(tc.lat, LatMin, LatMax) /\ Within(tc.lon, LonMin, LonMax)

\* the call returned a tile coordinate of its zoom
TileGiven ==
    /\ tc.pc = "done"
    /\ tc.r.ok
    /\ tc.r.zoom = tc.zoom
    /\ tc.zoom < U32Bits => tc.r.x \in 0..(Pow2(tc.zoom) - 1) /\ tc.r.y \in 0..(Pow2(tc.zoom) - 1)

TileRefused == tc.pc = "done" /\ ~tc.r.ok

\* C13 as stated: the call returns a range error exactly when lat is not in
\* [-85.05112878, 85.05112878] or lon is not in [-180, 180], and a tile
\* coordinate for every other input.
C13_RangeErrorIffOutside ==
    tc.pc \in {"done", "panic"} =>
        IF TileInside THEN TileGiven ELSE TileRefused

\* C13 as amended: the call returns a range error exactly when
\* lat < -85.05112878, lat > 85.05112878, lon < -180 or lon > 180 holds as an
\* f64 comparison, and for zoom < 32 it returns a tile coordinate for every
\* other input, the bounds included: lat = 85.0511287 succeeds, lat = 85.1
\* and lon = 180.1 fail.
C13_RangeErrorIffCompared ==
    tc.pc \in {"done", "panic"} =>
        /\ TileRefused <=>
              \/ CoordLess(tc.lat, LatMin) \/ CoordLess(LatMax, tc.lat)
              \/ CoordLess(tc.lon, LonMin) \/ CoordLess(LonMax, tc.lon)
        /\ tc.zoom < U32Bits /\ ~TileRefused => TileGiven
        /\ TileInside /\ tc.zoom < U32Bits => TileGiven
        /\ ~IsNaN(tc.lat) /\ ~IsNaN(tc.lon) /\ ~TileInside => TileRefused
        /\ tc.lat = Deg(850511, 2870) /\ Within(tc.lon, LonMin, LonMax) /\ tc.zoom < U32Bits
              => TileGiven
        /\ tc.lat = Deg(851000, 0) \/ tc.lon = Deg(1801000, 0) => TileRefused

\* a zoom-7 call at the upper latitude bound and the lower longitude bound
\* returned the tile (0, 0)
C13_Witness ==
    /\ tc.pc = "done"
    /\ tc.lat = LatMax /\ tc.lon = LonMin /\ tc.zoom = TileZoom
    /\ tc.r.ok /\ tc.r.x = 0 /\ tc.r.y = 0

\* quadkeys passed to insert by the calls that have returned
InsertedKeys == {calls[task] : task \in {c \in DOMAIN calls : Handled(c)}}

\* C14: while edges are inserted every tile entry sits in the shard its
\* quadkey hashes to, so no quadkey has entries in two shards, and holds at
\* least one edge; the output of collect() holds each inserted quadkey once,
\* no other quadkey, and no tile without an edge.
C14_OneTilePerQuadkey ==
    /\ \A b \in Buckets : \A q \in DOMAIN buckets[b] :
          /\ BucketIdx(q) = b
          /\ buckets[b][q].edges # <<>>
          /\ \A c \in Buckets \ {b} : q \notin DOMAIN buckets[c]
    /\ pc = "split" => {en[1] : en \in Entries(buckets)} = InsertedKeys
    /\ Collected =>
          /\ \A i, k \in DOMAIN tiles : tiles[i][1] = tiles[k][1] => i = k
          /\ \A i \in DOMAIN tiles : tiles[i][2].edges # <<>>
          /\ {tiles[i][1] : i \in DOMAIN tiles} = {calls[task] : task \in DOMAIN calls}

\* collect() returned two tiles of one shard, one of them holding the two
\* edges inserted under its quadkey
C14_Witness ==
    /\ Collected
    /\ Len(tiles) = 2
    /\ BucketIdx(tiles[1][1]) = BucketIdx(tiles[2][1])
    /\ \E i \in DOMAIN tiles :
          /\ Len(tiles[i][2].edges) = 2
          /\ Cardinality({task \in DOMAIN calls : calls[task] = tiles[i][1]}) = 2

LocksHeld(t) == {b \in Buckets : lock[b] = t}

\* a thread holds a shard lock only between lock() and the return of
\* insert, and then only the lock of the shard of its quadkey
C15_LockState ==
    \A t \in Workers :
        IF worker[t].pc = "locked"
        THEN LocksHeld(t) = {BucketIdx(worker[t].quadkey)}
        ELSE LocksHeld(t) = {}

\* C15: an insert holds at most one shard lock, that of its quadkey, and
\* none once it has returned; under fair scheduling every insert call that
\* was started returns.
C15_InsertsReturn ==
    /\ []C15_LockState
    /\ \A t \in Workers : (worker[t].pc \in {"insert", "locked"}) ~> (worker[t].pc = "idle")

\* a thread waits in insert for a shard lock another thread holds
C15_Witness ==
    \E t, u \in Workers :
        /\ t # u
        /\ worker[t].pc = "insert"
        /\ worker[u].pc = "locked"
        /\ lock[BucketIdx(worker[t].quadkey)] = u

\* C16: whenever the splitter is about to visit an index past the first,
\* the previous cut index lies strictly below it, so the slice taken at a
\* cut is never empty: the warning is never printed and every emitted edge
\* has nodes, for every way, those of length 0 or 1 included (these end
\* without an edge).
C16_NoEmptySlice ==
    sp.pc # "off" =>
        /\ sp.s.node_index >= 1 => sp.s.initial_node_index_on_edge < sp.s.node_index
        /\ sp.s.node_index = 0 => sp.s.initial_node_index_on_edge = 0
        /\ sp.s.warned = 0
        /\ \A k \in DOMAIN Emitted : Emitted[k].nodes # <<>>
        /\ sp.pc = "done" /\ Len(sp.way.nodes) <= 1 => Emitted = <<>>

\* a finished way of three nodes cut at both later indices: each edge is
\* the single node before its cut
C16_Witness ==
    /\ sp.pc = "done"
    /\ Len(sp.way.nodes) = 3
    /\ sp.s.initial_node_index_on_edge = 2
    /\ Len(Emitted) = 2
    /\ \A k \in DOMAIN Emitted : Len(Emitted[k].nodes) = 1

NodeElements == {i \in DOMAIN file : file[i].kind \in {"Node", "DenseNode"}}

\* C17: after pass 2, every Node or DenseNode element whose id is in the
\* active set has its pair in the node table, with the latitude and the
\* longitude of the element; an element whose id is not in the active set
\* has none.
C17_PairsCarryElementCoords ==
    PastPass2 =>
        \A i \in NodeElements :
            IF file[i].id \in active_nodes
            THEN /\ file[i].id \in DOMAIN node_table
                 /\ node_table[file[i].id].loc = [lat |-> file[i].lat, lon |-> file[i].lon]
            ELSE file[i].id \notin DOMAIN node_table

====
